---- MODULE Spec2Model ----
(***************************************************************************)
(* A model of microsat: the reversible CNF engine (src/src/expression.rs), *)
(* the DPLL driver (src/src/dpll.rs), the portfolio solver and the         *)
(* verifier (src/src/solver.rs).                                           *)
(*                                                                         *)
(* An Expression is a record.  Clause ids are 0-based as in the source;    *)
(* clause c is clauses[c + 1].  A HashMap is a function whose DOMAIN is    *)
(* the set of keys; a HashSet is a set.  Where the code takes "the first"  *)
(* element of a hash container (iter().next(), the first maximum of a      *)
(* scan) the model chooses any element.  A for-loop over a hash set whose  *)
(* iterations commute up to the order of the log records runs in           *)
(* ascending order.  A panic is recorded in the field `panic` of the       *)
(* Expression the panicking thread owns.                                   *)
(***************************************************************************)
EXTENDS Integers, Sequences, FiniteSets, TLC

VARIABLES
    overflow_checks,      \* build profile: TRUE = arithmetic overflow panics, FALSE = it wraps
    engine,               \* SpecEngine: the Expression under test
    mark,                 \* SpecEngine: the one mark taken with get_action_state, and the state then
    last_op,              \* SpecEngine: the engine operation that acted last
    constructed,          \* SpecEngine: the last result of construct_assignment
    expression,           \* the caller's (coordinator's) Expression
    workers,              \* the threads running solve_dpll, each with its own Expression
    runs,                 \* Spec: the answers of the finished runs, one per heuristic
    use_multiple_threads, \* solve's argument
    verify,               \* solve's argument
    channel,              \* the completion channel: messages sent and not yet received
    sent,                 \* history: every message published, in order
    coordinator,          \* solve's own thread: where it is and what it returned
    candidate,            \* SpecVerify: the assignment handed to the verifier
    verdict               \* SpecVerify: what the verifier and is_satisfied_by said

vars == <<overflow_checks, engine, mark, last_op, constructed, expression, workers, runs,
          use_multiple_threads, verify, channel, sent, coordinator, candidate, verdict>>

\* ---------------------------------------------------------------- bounds
MaxVar == 3          \* variables are 1..MaxVar
MaxClauses == 3      \* clauses per formula
MaxDeepVar == 2      \* SpecDeep: variables are 1..MaxDeepVar
MaxDeepClauses == 4  \* SpecDeep: clauses per formula
MaxClauseLen == 2    \* literals per added clause
MaxLog == 24         \* the action log is not grown beyond this depth
MaxEngineClauses == 2 \* clauses per formula in SpecEngine
AddRoom == 1         \* SpecAdd: ids left below 2^16 when the adding starts
MaxAdds == 3         \* SpecAdd: clauses added after that

\* ---------------------------------------------------------------- cnf.rs
\* ClauseId and num_active_clauses are u16
U16 == 65536

Variables == 1..MaxVar
Literals == {l \in (0 - MaxVar)..MaxVar : l # 0}

to_variable(literal) == IF literal < 0 THEN 0 - literal ELSE literal

negate(variable) == 0 - variable

\* Clause::insert_checked
insert_checked(clause, variable) ==
    IF \E i \in 1..Len(clause) : clause[i] = variable THEN clause ELSE Append(clause, variable)

\* Clause::remove: swap_remove of the first occurrence, a no-op when absent
ClauseRemove(clause, variable) ==
    LET hits == {i \in 1..Len(clause) : clause[i] = variable}
        n == Len(clause)
    IN  IF hits = {} THEN clause
        ELSE LET i == CHOOSE k \in hits : \A m \in hits : k <= m
             IN  [j \in 1..(n - 1) |-> IF j = i THEN clause[n] ELSE clause[j]]

Action(tag, arg) == [tag |-> tag, arg |-> arg]

\* ---------------------------------------------------------------- helpers
Min(S) == CHOOSE x \in S : \A y \in S : x <= y
Max(S) == CHOOSE x \in S : \A y \in S : x >= y

Panic(e, msg) == IF e.panic = "" THEN [e EXCEPT !.panic = msg] ELSE e

\* Stack::push
Push(e, action) == [e EXCEPT !.actions = Append(@, action)]

\* u16 / usize arithmetic of the counters.  num_active_clauses is kept in
\* 0..U16-1.  num_empty_clauses is a usize, kept as a residue modulo 2^64 and
\* written with the representative nearest to 0: usize::MAX is -1, and one
\* more added to it is 0 again.
SubActive(e) ==
    IF e.num_active_clauses = 0
    THEN IF overflow_checks THEN Panic(e, "attempt to subtract with overflow")
         ELSE [e EXCEPT !.num_active_clauses = U16 - 1]
    ELSE [e EXCEPT !.num_active_clauses = @ - 1]

AddActive(e) ==
    IF e.num_active_clauses = U16 - 1
    THEN IF overflow_checks THEN Panic(e, "attempt to add with overflow")
         ELSE [e EXCEPT !.num_active_clauses = 0]
    ELSE [e EXCEPT !.num_active_clauses = @ + 1]

SubEmpty(e) ==
    IF e.num_empty_clauses = 0
    THEN IF overflow_checks THEN Panic(e, "attempt to subtract with overflow")
         ELSE [e EXCEPT !.num_empty_clauses = @ - 1]
    ELSE [e EXCEPT !.num_empty_clauses = @ - 1]

\* ---------------------------------------------------------------- expression.rs
Heuristics == {"MostLiteralOccurances", "MostVariableOccurances", "MinimizeClauseLength"}

\* Expression::new
new ==
    [clauses |-> <<>>, variables |-> {}, actions |-> <<>>, assignments |-> <<>>,
     literal_to_clause |-> <<>>, unit_clauses |-> {}, pure_literals |-> {},
     num_active_clauses |-> 0, num_empty_clauses |-> 0, max_clause_length |-> 0,
     heuristic |-> "MostLiteralOccurances", panic |-> ""]

set_heuristic(e, heuristic) == [e EXCEPT !.heuristic = heuristic]

\* literal_clauses.is_some() && !literal_clauses.unwrap().is_empty()
has_instances(e, literal) ==
    literal \in DOMAIN e.literal_to_clause /\ e.literal_to_clause[literal] # {}

check_pure_literal(e, literal) ==
    LET negated_literal == negate(literal)
        has == has_instances(e, literal)
        negated_has == has_instances(e, negated_literal)
    IN  [e EXCEPT !.pure_literals =
            IF has /\ ~negated_has THEN (@ \cup {literal}) \ {negated_literal}
            ELSE IF ~has /\ negated_has THEN (@ \cup {negated_literal}) \ {literal}
            ELSE @ \ {literal, negated_literal}]

\* literal_to_clause with both polarities of the literal keyed
WithKeys(index, literal) ==
    [l \in DOMAIN index \cup {literal, negate(literal)} |->
        IF l \in DOMAIN index THEN index[l] ELSE {}]

RECURSIVE AddClauseLiterals(_, _, _, _)
AddClauseLiterals(e, clause, clause_id, i) ==
    IF i > Len(clause) THEN e
    ELSE LET literal == clause[i]
             keyed == WithKeys(e.literal_to_clause, literal)
             e1 == [e EXCEPT !.variables = @ \cup {to_variable(literal)},
                             !.literal_to_clause =
                                 [keyed EXCEPT ![literal] = @ \cup {clause_id}]]
         IN  AddClauseLiterals(check_pure_literal(e1, literal), clause, clause_id, i + 1)

\* an add_clause that leaves literal_to_clause alone
add_clause_unindexed(e, clause) ==
    AddActive([e EXCEPT !.variables = @ \cup {to_variable(clause[i]) : i \in 1..Len(clause)},
                        !.unit_clauses = IF Len(clause) = 1 THEN @ \cup {Len(e.clauses)} ELSE @,
                        !.clauses = Append(@, clause)])

add_clause(e, clause) ==
    LET clause_id == Len(e.clauses) % U16
        e1 == AddClauseLiterals(e, clause, clause_id, 1)
        e2 == [e1 EXCEPT !.unit_clauses =
                             IF Len(clause) = 1 THEN @ \cup {clause_id} ELSE @,
                         !.max_clause_length =
                             IF Len(clause) > @ THEN Len(clause) ELSE @,
                         !.clauses = Append(@, clause)]
    IN  AddActive(e2)

RECURSIVE AddClauses(_, _, _)
AddClauses(e, clauses, i) ==
    IF i > Len(clauses) THEN e ELSE AddClauses(add_clause(e, clauses[i]), clauses, i + 1)

from_clauses(clauses) == AddClauses(new, clauses, 1)

\* impl Clone for Expression: a new Expression rebuilt from the current clauses
clone(e) == AddClauses(new, e.clauses, 1)

\* Expression::optimize: a fresh, empty action log
optimize(e) == [e EXCEPT !.actions = <<>>]

remove_clause(e, clause_id) ==
    LET clause == e.clauses[clause_id + 1]
        gone == {i \in 1..Len(clause) :
                    /\ e.literal_to_clause[clause[i]] = {}
                    /\ ~has_instances(e, negate(clause[i]))}
        e1 == [e EXCEPT !.pure_literals = @ \cup {negate(clause[i]) : i \in gone}]
        e2 == SubActive(e1)
    IN  IF e2.panic # "" THEN e2
        ELSE Push([e2 EXCEPT !.unit_clauses = @ \ {clause_id}],
                  Action("RemoveClause", clause_id))

RECURSIVE EnableClauseLiterals(_, _, _)
EnableClauseLiterals(e, clause_id, i) ==
    LET clause == e.clauses[clause_id + 1]
    IN  IF i > Len(clause) THEN e
        ELSE LET literal == clause[i]
                 e1 == [e EXCEPT !.literal_to_clause[literal] = @ \cup {clause_id}]
                 should_check_pure_literal == Cardinality(e1.literal_to_clause[literal]) = 1
                 e2 == IF should_check_pure_literal THEN check_pure_literal(e1, literal) ELSE e1
             IN  EnableClauseLiterals(e2, clause_id, i + 1)

enable_clause(e, clause_id) ==
    LET e1 == AddActive(e)
        e2 == IF Len(e1.clauses[clause_id + 1]) = 1
              THEN [e1 EXCEPT !.unit_clauses = @ \cup {clause_id}] ELSE e1
    IN  IF e1.panic # "" THEN e1 ELSE EnableClauseLiterals(e2, clause_id, 1)

\* the body of the loop of remove_literal_from_clauses, over the ids in `todo`
RECURSIVE RemoveLiteralLoop(_, _, _)
RemoveLiteralLoop(e, literal, todo) ==
    IF todo = {} THEN e
    ELSE LET clause_id == Min(todo)
             clause == ClauseRemove(e.clauses[clause_id + 1], literal)
             e1 == [e EXCEPT !.clauses[clause_id + 1] = clause,
                             !.unit_clauses =
                                 IF Len(clause) = 0 THEN @ \ {clause_id}
                                 ELSE IF Len(clause) = 1 THEN @ \cup {clause_id} ELSE @,
                             !.num_empty_clauses = IF Len(clause) = 0 THEN @ + 1 ELSE @]
         IN  RemoveLiteralLoop(Push(e1, Action("RemoveLiteralFromClause", clause_id)),
                               literal, todo \ {clause_id})

\* a remove_literal_from_clauses that pushes no Start record
remove_literal_unbracketed(e, literal) ==
    IF literal \notin DOMAIN e.literal_to_clause THEN e
    ELSE Push(RemoveLiteralLoop(e, literal, e.literal_to_clause[literal]),
              Action("RemoveLiteralFromClausesEnd", literal))

remove_literal_from_clauses(e, literal) ==
    IF literal \notin DOMAIN e.literal_to_clause THEN e
    ELSE LET e1 == Push(e, Action("RemoveLiteralFromClausesStart", 0))
             e2 == RemoveLiteralLoop(e1, literal, e.literal_to_clause[literal])
         IN  Push(e2, Action("RemoveLiteralFromClausesEnd", literal))

RECURSIVE RemoveClausesLoop(_, _)
RemoveClausesLoop(e, todo) ==
    IF todo = {} \/ e.panic # "" THEN e
    ELSE RemoveClausesLoop(remove_clause(e, Min(todo)), todo \ {Min(todo)})

remove_clauses_with_literal(e, literal) ==
    IF literal \notin DOMAIN e.literal_to_clause THEN e
    ELSE RemoveClausesLoop(e, e.literal_to_clause[literal])

\* HashMap::insert
MapInsert(map, key, value) ==
    [k \in DOMAIN map \cup {key} |-> IF k = key THEN value ELSE map[k]]

\* HashMap::remove
MapRemove(map, key) == [k \in DOMAIN map \ {key} |-> map[k]]

assign_variable(e, variable, value) ==
    LET e1 == Push([e EXCEPT !.assignments = MapInsert(@, variable, value)],
                   Action("AssignVariable", variable))
        literal == IF value THEN variable ELSE 0 - variable
        negated_literal == negate(literal)
        e2 == remove_clauses_with_literal(e1, literal)
        e3 == remove_literal_from_clauses(e2, negated_literal)
    IN  IF e2.panic # "" THEN e2
        ELSE [e3 EXCEPT !.pure_literals = @ \ {literal, negated_literal}]

unassign_variable(e, variable) == [e EXCEPT !.assignments = MapRemove(@, variable)]

\* ---- the CNF trait as implemented by Expression

\* remove_unit_clause, with clause_id the element unit_clauses.iter().next() yields
remove_unit_clause(e, clause_id) ==
    LET clause == e.clauses[clause_id + 1]
    IN  IF Len(clause) = 0 THEN Panic(e, "index out of bounds")
        ELSE assign_variable(e, to_variable(clause[1]), clause[1] > 0)

\* remove_pure_literal, with literal the element pure_literals.iter().next() yields
remove_pure_literal(e, literal) == assign_variable(e, to_variable(literal), literal > 0)

\* a construct_assignment that defaults the remaining variables to false
construct_assignment_false(e) ==
    [v \in DOMAIN e.assignments \cup e.variables |->
        IF v \in DOMAIN e.assignments THEN e.assignments[v] ELSE FALSE]

\* construct_assignment: the assignments, the remaining variables set to true
construct_assignment(e) ==
    [v \in DOMAIN e.assignments \cup e.variables |->
        IF v \in DOMAIN e.assignments THEN e.assignments[v] ELSE TRUE]

is_satisfied(e) == e.num_active_clauses = 0

\* num_empty_clauses > 0, of an unsigned counter
is_unsatisfiable(e) == e.num_empty_clauses # 0

\* an inference test that looks at the two counters only
inference_by_counters(e) == e.num_empty_clauses = 0 /\ e.num_active_clauses > 0

is_inference_possible(e) ==
    /\ e.num_empty_clauses = 0
    /\ e.num_active_clauses > 0
    /\ (e.pure_literals # {} \/ e.unit_clauses # {})

branch_variable(e, variable, value) == assign_variable(e, variable, value)

get_action_state(e) == Len(e.actions)

Pop(e) == [e EXCEPT !.actions = SubSeq(@, 1, Len(@) - 1)]

\* the nested replay of restore_action_state after RemoveLiteralFromClausesEnd(literal)
RECURSIVE RestoreLiteral(_, _)
RestoreLiteral(e, literal) ==
    IF e.actions = <<>> THEN Panic(e, "unwrap on a None value")
    ELSE LET next_action == e.actions[Len(e.actions)]
             popped == Pop(e)
         IN  IF next_action.tag = "RemoveLiteralFromClause"
             THEN LET clause_id == next_action.arg
                      clause == Append(popped.clauses[clause_id + 1], literal)
                      e1 == [popped EXCEPT !.clauses[clause_id + 1] = clause]
                      e2 == IF Len(clause) = 1
                            THEN LET d == SubEmpty(e1)
                                 IN  [d EXCEPT !.unit_clauses = @ \cup {clause_id}]
                            ELSE IF Len(clause) = 2
                            THEN [e1 EXCEPT !.unit_clauses = @ \ {clause_id}]
                            ELSE e1
                      e3 == [e2 EXCEPT !.literal_to_clause[literal] = @ \cup {clause_id}]
                  IN  IF e2.panic # "" THEN e2 ELSE RestoreLiteral(e3, literal)
             ELSE IF next_action.tag = "RemoveLiteralFromClausesStart" THEN popped
             ELSE Panic(popped, "Did not encounter a start literal!")

RECURSIVE restore_action_state(_, _)
restore_action_state(e, state) ==
    IF Len(e.actions) <= state \/ e.panic # "" THEN e
    ELSE LET action == e.actions[Len(e.actions)]
             popped == Pop(e)
         IN  IF action.tag = "RemoveClause"
             THEN restore_action_state(enable_clause(popped, action.arg), state)
             ELSE IF action.tag = "RemoveLiteralFromClausesEnd"
             THEN restore_action_state(RestoreLiteral(popped, action.arg), state)
             ELSE IF action.tag = "AssignVariable"
             THEN restore_action_state(unassign_variable(popped, action.arg), state)
             ELSE popped

\* ---- branching heuristics: the set of (variable, value) pairs the scan can
\* return; the empty set is the panic of the scan

Unassigned(e) == {v \in e.variables : v \notin DOMAIN e.assignments}

get_most_literal_occurances(e) ==
    LET cands == {l \in DOMAIN e.literal_to_clause :
                     /\ e.literal_to_clause[l] # {}
                     /\ to_variable(l) \notin DOMAIN e.assignments}
        occurances(l) == Cardinality(e.literal_to_clause[l])
    IN  {<<to_variable(l), l > 0>> :
            l \in {b \in cands : \A o \in cands : occurances(b) >= occurances(o)}}

get_most_variable_occurances(e) ==
    LET occurances(v) == Cardinality(e.literal_to_clause[v])
                         + Cardinality(e.literal_to_clause[0 - v])
        cands == {v \in Unassigned(e) : occurances(v) > 0}
    IN  {<<v, TRUE>> :
            v \in {b \in cands : \A o \in cands : occurances(b) >= occurances(o)}}

ALPHA == 1
BETA == 1

\* occurrences of the literal in clauses of the given current length
SizedOccurrences(e, literal, clause_size) ==
    Cardinality({c \in e.literal_to_clause[literal] : Len(e.clauses[c + 1]) = clause_size})

heuristic_value(e, variable, clause_size) ==
    LET p == SizedOccurrences(e, variable, clause_size)
        n == SizedOccurrences(e, 0 - variable, clause_size)
    IN  ALPHA * (IF p > n THEN p ELSE n) + BETA * (IF p < n THEN p ELSE n)

\* one round of the filter: the candidates with the greatest value for this size
RECURSIVE LexFilter(_, _, _)
LexFilter(e, best_variables, clause_size) ==
    IF clause_size >= 5 THEN best_variables
    ELSE LET new_best_variables ==
                 {v \in best_variables : \A o \in best_variables :
                      heuristic_value(e, v, clause_size) >= heuristic_value(e, o, clause_size)}
         IN  IF Cardinality(new_best_variables) = 1 THEN new_best_variables
             ELSE LexFilter(e, new_best_variables, clause_size + 1)

get_lexicographically_maximizing_literal(e) ==
    {<<v, Cardinality(e.literal_to_clause[v]) > Cardinality(e.literal_to_clause[0 - v])>> :
        v \in LexFilter(e, Unassigned(e), 2)}

\* the abort of a scan that finds no candidate: the panic! of the first two
\* heuristics, best_variables[0] on an empty vector in the third
NoCandidate(e) ==
    IF e.heuristic = "MinimizeClauseLength" THEN "index out of bounds"
    ELSE "No branch variable found"

get_branch_variable(e) ==
    IF e.heuristic = "MostLiteralOccurances" THEN get_most_literal_occurances(e)
    ELSE IF e.heuristic = "MostVariableOccurances" THEN get_most_variable_occurances(e)
    ELSE get_lexicographically_maximizing_literal(e)

\* ---------------------------------------------------------------- inputs
\* A clause as the parser builds it (insert_checked, so no literal twice), its
\* literals in ascending order; a formula is a list of at most MaxClauses such
\* clauses, listed in ascending order of ClauseCode (one list per multiset).
RECURSIVE SortedSeq(_)
SortedSeq(S) == IF S = {} THEN <<>> ELSE <<Min(S)>> \o SortedSeq(S \ {Min(S)})

ClauseUniverse ==
    {SortedSeq(S) : S \in {T \in SUBSET Literals : Cardinality(T) <= MaxClauseLen}}

RECURSIVE ClauseCode(_)
ClauseCode(clause) ==
    IF clause = <<>> THEN 0
    ELSE (clause[1] + MaxVar + 1) + (2 * MaxVar + 2) * ClauseCode(Tail(clause))

Formulas ==
    UNION {{f \in [1..n -> ClauseUniverse] :
               \A i \in 1..(n - 1) : ClauseCode(f[i]) <= ClauseCode(f[i + 1])} :
           n \in 0..MaxClauses}

EngineFormulas == {f \in Formulas : Len(f) <= MaxEngineClauses}

\* the assignments over some of the variables
Assignments == UNION {[S -> BOOLEAN] : S \in SUBSET Variables}

\* values of the variables a specification does not use
NoMark == [status |-> "none", state |-> 0, at |-> new]
NoAssignment == <<>>
NoResult == [kind |-> "none", assignment |-> NoAssignment]
Idle == [status |-> "unspawned", cnf |-> new, stack |-> <<>>, ret |-> NoResult]
NoVerdict == [verify_assignment |-> "none", is_satisfied_by |-> "none"]
NoCoordinator == [pc |-> "idle", solution |-> NoResult]

\* ---------------------------------------------------------------- SpecEngine
\* A client of the CNF trait: it builds an Expression, takes a mark, calls the
\* mutating operations in any order and restores to the mark.

EngineReady == engine.panic = "" /\ Len(engine.actions) < MaxLog

EngineFrame ==
    UNCHANGED <<overflow_checks, expression, workers, runs, use_multiple_threads, verify,
                channel, sent, coordinator, candidate, verdict>>

\* the mark lives on while it is taken; a restored mark is spent
KeepMark == IF mark.status = "restored" THEN [NoMark EXCEPT !.status = "spent"] ELSE mark

GetActionState ==
    /\ engine.panic = ""
    /\ mark = NoMark
    /\ mark' = [status |-> "taken", state |-> get_action_state(engine), at |-> engine]
    /\ last_op' = "get_action_state"
    /\ constructed' = NoAssignment
    /\ UNCHANGED engine
    /\ EngineFrame

RemoveUnitClause ==
    /\ EngineReady
    /\ \E clause_id \in engine.unit_clauses :
           engine' = remove_unit_clause(engine, clause_id)
    /\ last_op' = "remove_unit_clause"
    /\ mark' = KeepMark
    /\ constructed' = NoAssignment
    /\ EngineFrame

RemovePureLiteral ==
    /\ EngineReady
    /\ \E literal \in engine.pure_literals :
           engine' = remove_pure_literal(engine, literal)
    /\ last_op' = "remove_pure_literal"
    /\ mark' = KeepMark
    /\ constructed' = NoAssignment
    /\ EngineFrame

\* branch_variable as solve_dpll calls it: when no inference is possible and the
\* formula is neither satisfied nor unsatisfiable, on the variable a heuristic
\* returns, with the value it returns or (the second branch) the other one
BranchVariable ==
    /\ EngineReady
    /\ ~is_inference_possible(engine)
    /\ ~is_satisfied(engine)
    /\ ~is_unsatisfiable(engine)
    /\ \E heuristic \in Heuristics :
           \E choice \in get_branch_variable(set_heuristic(engine, heuristic)) :
               \E value \in BOOLEAN :
                   engine' = branch_variable(engine, choice[1], value)
    /\ last_op' = "branch_variable"
    /\ mark' = KeepMark
    /\ constructed' = NoAssignment
    /\ EngineFrame

RestoreActionState ==
    /\ engine.panic = ""
    /\ mark.status = "taken"
    /\ engine' = restore_action_state(engine, mark.state)
    /\ mark' = [mark EXCEPT !.status = "restored"]
    /\ last_op' = "restore_action_state"
    /\ constructed' = NoAssignment
    /\ EngineFrame

ConstructAssignment ==
    /\ engine.panic = ""
    /\ last_op # "construct_assignment"
    /\ constructed' = construct_assignment(engine)
    /\ last_op' = "construct_assignment"
    /\ mark' = KeepMark
    /\ UNCHANGED engine
    /\ EngineFrame

InitEngine ==
    /\ overflow_checks \in BOOLEAN
    /\ \E f \in EngineFormulas : engine = from_clauses(f)
    /\ mark = NoMark
    /\ last_op = "from_clauses"
    /\ constructed = NoAssignment
    /\ expression = new
    /\ workers = [w \in 1..2 |-> Idle]
    /\ runs = <<>>
    /\ use_multiple_threads = FALSE
    /\ verify = FALSE
    /\ channel = <<>>
    /\ sent = <<>>
    /\ coordinator = NoCoordinator
    /\ candidate = NoAssignment
    /\ verdict = NoVerdict

NextEngine ==
    \/ GetActionState
    \/ RemoveUnitClause
    \/ RemovePureLiteral
    \/ BranchVariable
    \/ RestoreActionState
    \/ ConstructAssignment

SpecEngine == InitEngine /\ [][NextEngine]_vars

\* ---------------------------------------------------------------- solver.rs: the verifier
\* The verdict on one clause, from literal i on: "true" once a literal agrees,
\* "false" when none does, "panic" when assignment[&term] has no such key.
RECURSIVE VerifyClause(_, _, _)
VerifyClause(clause, assignment, i) ==
    IF i > Len(clause) THEN "false"
    ELSE LET term == to_variable(clause[i])
             sign == clause[i] > 0
         IN  IF term \notin DOMAIN assignment THEN "panic"
             ELSE IF assignment[term] = sign THEN "true"
             ELSE VerifyClause(clause, assignment, i + 1)

\* a verifier that stops after the first clause
VerifyFirstClause(clauses, assignment, c) ==
    IF c > Len(clauses) THEN "true" ELSE VerifyClause(clauses[c], assignment, 1)

RECURSIVE VerifyClauses(_, _, _)
VerifyClauses(clauses, assignment, c) ==
    IF c > Len(clauses) THEN "true"
    ELSE LET satisfied == VerifyClause(clauses[c], assignment, 1)
         IN  IF satisfied = "true" THEN VerifyClauses(clauses, assignment, c + 1)
             ELSE satisfied

verify_assignment(e, assignment) == VerifyClauses(e.clauses, assignment, 1)

\* Expression::is_satisfied_by: a literal of an unassigned variable is skipped
RECURSIVE SatisfiedByClause(_, _, _)
SatisfiedByClause(clause, assignment, i) ==
    IF i > Len(clause) THEN FALSE
    ELSE LET variable == to_variable(clause[i])
         IN  IF variable \notin DOMAIN assignment
             THEN SatisfiedByClause(clause, assignment, i + 1)
             ELSE IF assignment[variable] = (clause[i] > 0) THEN TRUE
             ELSE SatisfiedByClause(clause, assignment, i + 1)

is_satisfied_by(e, assignment) ==
    \A c \in 1..Len(e.clauses) : SatisfiedByClause(e.clauses[c], assignment, 1)

\* ---------------------------------------------------------------- dpll.rs
\* One frame per activation of solve_dpll.  pc: "loop" the test of the
\* inference loop, "unit" and "pure" the two draining loops, "decide" the
\* tests after the loop, "first" and "second" the two recursive calls.
\* entry is history: the Expression as the call found it.
Frame(e) ==
    [pc |-> "loop", action_state |-> get_action_state(e), branch_action_state |-> 0,
     branch_variable |-> 0, branch_value |-> FALSE, entry |-> e]

Some(assignment) == [kind |-> "Some", assignment |-> assignment]
None == [kind |-> "None", assignment |-> NoAssignment]

Top(w) == workers[w].stack[Len(workers[w].stack)]

InDpll(w, pc) ==
    /\ workers[w].status = "running"
    /\ workers[w].stack # <<>>
    /\ Top(w).pc = pc

\* the thread's state after a step that left its Expression as e
Stepped(wk, e) ==
    IF e.panic # "" THEN [wk EXCEPT !.cnf = e, !.status = "panicked"]
    ELSE [wk EXCEPT !.cnf = e]

Goto(wk, pc) == [wk EXCEPT !.stack[Len(wk.stack)].pc = pc]

\* return from the top activation with the given result
Return(wk, result) ==
    LET rest == SubSeq(wk.stack, 1, Len(wk.stack) - 1)
    IN  [wk EXCEPT !.stack = rest, !.ret = result,
                   !.status = IF rest = <<>> THEN "returned" ELSE @]

\* cnf.restore_action_state(state); return None
RestoreAndReturnNone(wk, state) ==
    LET e == restore_action_state(wk.cnf, state)
    IN  IF e.panic # "" THEN Stepped(wk, e) ELSE Return(Stepped(wk, e), None)

\* cnf.branch_variable(variable, value); solve_dpll(cnf)
BranchAndCall(wk, e, variable, value, pc, branch_action_state) ==
    LET e1 == branch_variable(e, variable, value)
        wk1 == [wk EXCEPT !.stack[Len(wk.stack)] =
                              [@ EXCEPT !.pc = pc,
                                        !.branch_action_state = branch_action_state,
                                        !.branch_variable = variable,
                                        !.branch_value = value],
                          !.ret = NoResult]
    IN  IF e1.panic # "" THEN Stepped(wk1, e1)
        ELSE [Stepped(wk1, e1) EXCEPT !.stack = Append(@, Frame(e1))]

\* a step of solve_dpll changes nothing but the thread that takes it
DpllFrame ==
    UNCHANGED <<overflow_checks, engine, mark, last_op, constructed, expression, runs,
                use_multiple_threads, verify, channel, sent, coordinator, candidate, verdict>>

\* a step on an Expression that the two threads share
SetSharedWorker(w, wk) == workers' = [v \in 1..2 |-> wk]

SetWorker(w, wk) == workers' = [workers EXCEPT ![w] = wk]

\* while cnf.is_inference_possible()
DpllInference(w) ==
    /\ InDpll(w, "loop")
    /\ SetWorker(w, Goto(workers[w],
                         IF is_inference_possible(workers[w].cnf) THEN "unit" ELSE "decide"))
    /\ DpllFrame

\* while cnf.remove_unit_clause().is_some() {}: a call that returns Some
DpllRemoveUnitClause(w) ==
    /\ InDpll(w, "unit")
    /\ Len(workers[w].cnf.actions) < MaxLog
    /\ \E clause_id \in workers[w].cnf.unit_clauses :
           SetWorker(w, Stepped(workers[w], remove_unit_clause(workers[w].cnf, clause_id)))
    /\ DpllFrame

\* the call that returns None, and the test of is_unsatisfiable after the loop
DpllUnitsDrained(w) ==
    /\ InDpll(w, "unit")
    /\ workers[w].cnf.unit_clauses = {}
    /\ SetWorker(w, IF is_unsatisfiable(workers[w].cnf)
                    THEN RestoreAndReturnNone(workers[w], Top(w).action_state)
                    ELSE Goto(workers[w], "pure"))
    /\ DpllFrame

\* while cnf.remove_pure_literal().is_some() {}: a call that returns Some
DpllRemovePureLiteral(w) ==
    /\ InDpll(w, "pure")
    /\ Len(workers[w].cnf.actions) < MaxLog
    /\ \E literal \in workers[w].cnf.pure_literals :
           SetWorker(w, Stepped(workers[w], remove_pure_literal(workers[w].cnf, literal)))
    /\ DpllFrame

\* the call that returns None: back to the test of the inference loop
DpllPuresDrained(w) ==
    /\ InDpll(w, "pure")
    /\ workers[w].cnf.pure_literals = {}
    /\ SetWorker(w, Goto(workers[w], "loop"))
    /\ DpllFrame

\* if cnf.is_satisfied() { return Some(cnf.construct_assignment()) }
DpllSatisfied(w) ==
    /\ InDpll(w, "decide")
    /\ is_satisfied(workers[w].cnf)
    /\ SetWorker(w, Return(workers[w], Some(construct_assignment(workers[w].cnf))))
    /\ DpllFrame

\* if cnf.is_unsatisfiable() { restore; return None }; otherwise
\* get_branch_variable, branch_variable and the first recursive call
DpllBranch(w) ==
    /\ InDpll(w, "decide")
    /\ ~is_satisfied(workers[w].cnf)
    /\ LET e == workers[w].cnf
           choices == get_branch_variable(e)
       IN  IF is_unsatisfiable(e)
           THEN SetWorker(w, RestoreAndReturnNone(workers[w], Top(w).action_state))
           ELSE /\ Len(e.actions) < MaxLog
                /\ IF choices = {}
                   THEN SetWorker(w, Stepped(workers[w], Panic(e, NoCandidate(e))))
                   ELSE \E choice \in choices :
                            SetWorker(w, BranchAndCall(workers[w], e, choice[1], choice[2],
                                                       "first", get_action_state(e)))
    /\ DpllFrame

\* a recursive call has returned: Some is handed on; after None from the first
\* call the branch is restored and the other value tried, after None from the
\* second the activation restores to its own mark and returns None
DpllBranchReturn(w) ==
    /\ workers[w].status = "running"
    /\ workers[w].stack # <<>>
    /\ Top(w).pc \in {"first", "second"}
    /\ workers[w].ret.kind # "none"
    /\ LET wk == workers[w]
           frame == Top(w)
           e == restore_action_state(wk.cnf, frame.branch_action_state)
       IN  IF wk.ret.kind = "Some" THEN SetWorker(w, Return(wk, wk.ret))
           ELSE IF frame.pc = "second"
           THEN SetWorker(w, RestoreAndReturnNone(wk, frame.action_state))
           ELSE IF e.panic # "" THEN SetWorker(w, Stepped(wk, e))
           ELSE SetWorker(w, BranchAndCall(wk, e, frame.branch_variable, ~frame.branch_value,
                                           "second", frame.branch_action_state))
    /\ DpllFrame

\* ---------------------------------------------------------------- Spec
\* solve_dpll run the way a worker of solve runs it, once per heuristic, one
\* run after the other on the same formula.
HeuristicOrder == <<"MostLiteralOccurances", "MostVariableOccurances", "MinimizeClauseLength">>

Finished(wk) == wk.status \in {"returned", "panicked"}

\* the answer of a finished thread: "Some", "None" or "panic"
Answer(wk) == IF wk.status = "panicked" THEN "panic" ELSE wk.ret.kind

RunFrame ==
    UNCHANGED <<overflow_checks, engine, mark, last_op, constructed, expression,
                use_multiple_threads, verify, channel, sent, coordinator, candidate, verdict>>

\* a worker's closure, for the next heuristic: the clone of the formula,
\* optimize, set_heuristic and the call of solve_dpll
StartRun ==
    /\ workers[1].status = "unspawned"
    /\ Len(runs) < Len(HeuristicOrder)
    /\ LET cnf == set_heuristic(optimize(clone(expression)), HeuristicOrder[Len(runs) + 1])
       IN  SetWorker(1, [status |-> "running", cnf |-> cnf, stack |-> <<Frame(cnf)>>,
                         ret |-> NoResult])
    /\ UNCHANGED runs
    /\ RunFrame

FinishRun ==
    /\ Finished(workers[1])
    /\ runs' = Append(runs, Answer(workers[1]))
    /\ SetWorker(1, Idle)
    /\ RunFrame

Init ==
    /\ overflow_checks \in BOOLEAN
    /\ \E f \in Formulas : expression = from_clauses(f)
    /\ workers = [w \in 1..2 |-> Idle]
    /\ runs = <<>>
    /\ engine = new
    /\ mark = NoMark
    /\ last_op = "none"
    /\ constructed = NoAssignment
    /\ use_multiple_threads = FALSE
    /\ verify = FALSE
    /\ channel = <<>>
    /\ sent = <<>>
    /\ coordinator = NoCoordinator
    /\ candidate = NoAssignment
    /\ verdict = NoVerdict

Next ==
    \/ StartRun
    \/ DpllInference(1)
    \/ DpllRemoveUnitClause(1)
    \/ DpllUnitsDrained(1)
    \/ DpllRemovePureLiteral(1)
    \/ DpllPuresDrained(1)
    \/ DpllSatisfied(1)
    \/ DpllBranch(1)
    \/ DpllBranchReturn(1)
    \/ FinishRun

Spec == Init /\ [][Next]_vars

\* ---------------------------------------------------------------- SpecDeep
\* The same runs of solve_dpll on formulas of more clauses over fewer variables.
DeepUniverse ==
    {clause \in ClauseUniverse :
        \A i \in 1..Len(clause) : to_variable(clause[i]) <= MaxDeepVar}

DeepFormulas ==
    UNION {{f \in [1..n -> DeepUniverse] :
               \A i \in 1..(n - 1) : ClauseCode(f[i]) <= ClauseCode(f[i + 1])} :
           n \in 0..MaxDeepClauses}

InitDeep ==
    /\ overflow_checks \in BOOLEAN
    /\ \E f \in DeepFormulas : expression = from_clauses(f)
    /\ workers = [w \in 1..2 |-> Idle]
    /\ runs = <<>>
    /\ engine = new
    /\ mark = NoMark
    /\ last_op = "none"
    /\ constructed = NoAssignment
    /\ use_multiple_threads = FALSE
    /\ verify = FALSE
    /\ channel = <<>>
    /\ sent = <<>>
    /\ coordinator = NoCoordinator
    /\ candidate = NoAssignment
    /\ verdict = NoVerdict

SpecDeep == InitDeep /\ [][Next]_vars

\* ---------------------------------------------------------------- SpecSolve
\* solver.rs: solve(expression, use_multiple_threads, verify)
Worker1Heuristic == "MostLiteralOccurances"
Worker2Heuristic == "MinimizeClauseLength"

\* the threads that still hold a sender of the completion channel; 0 is the
\* coordinator, which keeps send_channel_copy when it spawns no second worker
LiveSenders ==
    {w \in 1..2 : workers[w].status \in {"spawned", "running", "returned"}}
    \cup (IF coordinator.pc = "recv" /\ ~use_multiple_threads THEN {0} ELSE {})

SolveFrame ==
    UNCHANGED <<overflow_checks, engine, mark, last_op, constructed, expression, runs,
                use_multiple_threads, verify, candidate, verdict>>

\* the clones, the channel and the spawns, up to the blocking recv
SolveSpawn ==
    /\ coordinator.pc = "called"
    /\ workers' = [w \in 1..2 |->
                      [status |-> IF w = 1 \/ use_multiple_threads THEN "spawned" ELSE "unspawned",
                       cnf |-> clone(expression), stack |-> <<>>, ret |-> NoResult]]
    /\ coordinator' = [coordinator EXCEPT !.pc = "recv"]
    /\ UNCHANGED <<channel, sent>>
    /\ SolveFrame

\* the head of a worker's closure: optimize, set_heuristic, the call of solve_dpll
WorkerStart(w) ==
    /\ workers[w].status = "spawned"
    /\ LET cnf == set_heuristic(optimize(workers[w].cnf),
                                IF w = 1 THEN Worker1Heuristic ELSE Worker2Heuristic)
       IN  SetWorker(w, [workers[w] EXCEPT !.status = "running", !.cnf = cnf,
                                           !.stack = <<Frame(cnf)>>])
    /\ UNCHANGED <<channel, sent, coordinator>>
    /\ SolveFrame

\* let _ = send_channel.send(result): an error once the receiver is gone
WorkerSend(w) ==
    /\ workers[w].status = "returned"
    /\ SetWorker(w, [workers[w] EXCEPT !.status = "done"])
    /\ IF coordinator.pc = "recv"
       THEN channel' = Append(channel, workers[w].ret) /\ sent' = Append(sent, workers[w].ret)
       ELSE UNCHANGED <<channel, sent>>
    /\ UNCHANGED coordinator
    /\ SolveFrame

\* a receive that yields the newest queued message
recv_newest(queue) == queue[Len(queue)]

\* recv_channel.recv() on a queue that holds a message: the oldest one
recv(queue) == Head(queue)

\* a coordinator that skips the verification
unverified(solution) == "true"

\* if solution.is_some() && verify { .. verify_assignment(&expression, &assignment) .. }
verified(solution) ==
    IF solution.kind = "Some" /\ verify
    THEN verify_assignment(expression, solution.assignment)
    ELSE "true"

\* recv() yields a message; the verification; the return
SolveRecv ==
    /\ coordinator.pc = "recv"
    /\ channel # <<>>
    /\ LET solution == recv(channel)
       IN  coordinator' = [pc |-> IF verified(solution) = "true" THEN "returned" ELSE "panicked",
                           solution |-> solution]
    /\ channel' = Tail(channel)
    /\ UNCHANGED <<workers, sent>>
    /\ SolveFrame

\* recv() fails: every sender is dropped and no message is queued
SolveRecvDisconnected ==
    /\ coordinator.pc = "recv"
    /\ channel = <<>>
    /\ LiveSenders = {}
    /\ coordinator' = [coordinator EXCEPT !.pc = "panicked"]
    /\ UNCHANGED <<workers, channel, sent>>
    /\ SolveFrame

InitSolve ==
    /\ overflow_checks \in BOOLEAN
    /\ \E f \in Formulas : expression = from_clauses(f)
    /\ use_multiple_threads \in BOOLEAN
    /\ verify \in BOOLEAN
    /\ workers = [w \in 1..2 |-> Idle]
    /\ coordinator = [pc |-> "called", solution |-> NoResult]
    /\ channel = <<>>
    /\ sent = <<>>
    /\ runs = <<>>
    /\ engine = new
    /\ mark = NoMark
    /\ last_op = "none"
    /\ constructed = NoAssignment
    /\ candidate = NoAssignment
    /\ verdict = NoVerdict

NextSolve ==
    \/ SolveSpawn
    \/ \E w \in 1..2 : WorkerStart(w)
    \/ \E w \in 1..2 : DpllInference(w)
    \/ \E w \in 1..2 : DpllRemoveUnitClause(w)
    \/ \E w \in 1..2 : DpllUnitsDrained(w)
    \/ \E w \in 1..2 : DpllRemovePureLiteral(w)
    \/ \E w \in 1..2 : DpllPuresDrained(w)
    \/ \E w \in 1..2 : DpllSatisfied(w)
    \/ \E w \in 1..2 : DpllBranch(w)
    \/ \E w \in 1..2 : DpllBranchReturn(w)
    \/ \E w \in 1..2 : WorkerSend(w)
    \/ SolveRecv
    \/ SolveRecvDisconnected

SpecSolve == InitSolve /\ [][NextSolve]_vars

\* ---------------------------------------------------------------- SpecVerify
\* verify_assignment and is_satisfied_by applied to a formula and an assignment
VerifyFrame ==
    UNCHANGED <<overflow_checks, engine, mark, last_op, constructed, expression, workers, runs,
                use_multiple_threads, verify, channel, sent, coordinator, candidate>>

VerifyAssignment ==
    /\ verdict.verify_assignment = "none"
    /\ verdict' = [verdict EXCEPT !.verify_assignment = verify_assignment(expression, candidate)]
    /\ VerifyFrame

IsSatisfiedBy ==
    /\ verdict.is_satisfied_by = "none"
    /\ verdict' = [verdict EXCEPT !.is_satisfied_by =
                      IF is_satisfied_by(expression, candidate) THEN "true" ELSE "false"]
    /\ VerifyFrame

InitVerify ==
    /\ overflow_checks \in BOOLEAN
    /\ \E f \in Formulas : expression = from_clauses(f)
    /\ candidate \in Assignments
    /\ verdict = NoVerdict
    /\ workers = [w \in 1..2 |-> Idle]
    /\ coordinator = NoCoordinator
    /\ use_multiple_threads = FALSE
    /\ verify = FALSE
    /\ channel = <<>>
    /\ sent = <<>>
    /\ runs = <<>>
    /\ engine = new
    /\ mark = NoMark
    /\ last_op = "none"
    /\ constructed = NoAssignment

NextVerify ==
    \/ VerifyAssignment
    \/ IsSatisfiedBy

SpecVerify == InitVerify /\ [][NextVerify]_vars

\* ---------------------------------------------------------------- claims
\* the clause has a literal whose polarity agrees with the assignment
Agrees(clause, assignment) ==
    \E i \in 1..Len(clause) :
        /\ to_variable(clause[i]) \in DOMAIN assignment
        /\ assignment[to_variable(clause[i])] = (clause[i] > 0)

Satisfies(assignment, clauses) == \A c \in 1..Len(clauses) : Agrees(clauses[c], assignment)

\* C1: whenever solve_dpll returns Some(A), A gives a value to every variable
\* of the formula and every clause of the original formula has a literal whose
\* polarity agrees with A.
C1_Soundness ==
    \A w \in 1..2 :
        (workers[w].status = "returned" /\ workers[w].ret.kind = "Some") =>
            /\ expression.variables \subseteq DOMAIN workers[w].ret.assignment
            /\ Satisfies(workers[w].ret.assignment, expression.clauses)

\* the truth-table check: some total assignment satisfies every clause
Satisfiable(clauses) == \E a \in [Variables -> BOOLEAN] : Satisfies(a, clauses)

\* C2: solve_dpll returns Some exactly for the formulas a truth-table check
\* finds satisfiable, and None exactly for the unsatisfiable ones.
C2_Completeness ==
    \A w \in 1..2 :
        workers[w].status = "returned" =>
            (workers[w].ret.kind = "Some" <=> Satisfiable(expression.clauses))

\* the literals of a clause, with their multiplicities
LiteralCount(clause, literal) == Cardinality({i \in 1..Len(clause) : clause[i] = literal})

SameContents(c1, c2) ==
    \A l \in Literals : LiteralCount(c1, l) = LiteralCount(c2, l)

\* the clauses with no RemoveClause record on the log
ActiveClauses(e) ==
    {c \in 0..(Len(e.clauses) - 1) :
        \A i \in 1..Len(e.actions) : e.actions[i] # Action("RemoveClause", c)}

\* the observable state of two Expressions is the same
SameState(e1, e2) ==
    /\ ActiveClauses(e1) = ActiveClauses(e2)
    /\ Len(e1.clauses) = Len(e2.clauses)
    /\ \A c \in 1..Len(e1.clauses) : SameContents(e1.clauses[c], e2.clauses[c])
    /\ e1.literal_to_clause = e2.literal_to_clause
    /\ e1.unit_clauses = e2.unit_clauses
    /\ e1.pure_literals = e2.pure_literals
    /\ e1.num_active_clauses = e2.num_active_clauses
    /\ e1.num_empty_clauses = e2.num_empty_clauses
    /\ e1.assignments = e2.assignments

\* C3: restore_action_state(M) leaves the log at depth M and the Expression in
\* the observable state it had when the mark M was taken.
C3_RestoreInverts ==
    (last_op = "restore_action_state" /\ mark.status = "restored") =>
        /\ engine.panic = ""
        /\ Len(engine.actions) = mark.state
        /\ SameState(engine, mark.at)

\* C4: the three heuristics give the same sat/unsat answer on the same
\* formula: Some in all three runs or None in all three.
C4_HeuristicInvariance ==
    Len(runs) = Len(HeuristicOrder) =>
        /\ \A i \in 1..Len(runs) : runs[i] \in {"Some", "None"}
        /\ \A i, j \in 1..Len(runs) : runs[i] = runs[j]

\* C5: the answer solve gets with two workers is the answer of the first
\* worker, the only one a single-threaded solve runs, and both workers give
\* the same sat/unsat answer, under every interleaving.
C5_PortfolioAgreement ==
    /\ (use_multiple_threads /\ coordinator.solution.kind # "none"
            /\ workers[1].status \in {"returned", "done", "panicked"}) =>
           coordinator.solution.kind = Answer(workers[1])
    /\ (\A w \in 1..2 : workers[w].status \in {"returned", "done", "panicked"}) =>
           Answer(workers[1]) = Answer(workers[2])

\* C6: the result of solve is the first message published on the completion
\* channel; the coordinator does not wait for the other worker, and whatever
\* is published later leaves the result as it is.
C6_FirstResultWins ==
    coordinator.solution.kind # "none" =>
        /\ coordinator.pc \in {"returned", "panicked"}
        /\ sent # <<>>
        /\ coordinator.solution = sent[1]

\* the coordinator has its result, the other worker published a different one
C6_Witness ==
    /\ coordinator.pc = "returned"
    /\ Len(sent) = 2
    /\ sent[2] # coordinator.solution

\* C7: with verify set, solve returns no Some(A) the verifier rejects against
\* the original Expression: it aborts instead; None is returned as it is.
C7_VerificationFatal ==
    LET solution == coordinator.solution
    IN  /\ (verify /\ coordinator.pc = "returned" /\ solution.kind = "Some") =>
               verify_assignment(expression, solution.assignment) = "true"
        /\ (coordinator.pc = "panicked" /\ solution.kind = "Some") =>
               verify /\ verify_assignment(expression, solution.assignment) # "true"
        /\ solution.kind = "None" => coordinator.pc = "returned"

\* solve aborted on a Some the verifier rejects
C7_Witness ==
    /\ verify
    /\ coordinator.pc = "panicked"
    /\ coordinator.solution.kind = "Some"
    /\ verify_assignment(expression, coordinator.solution.assignment) = "false"

\* C8: for an assignment that covers the formula's variables, verify_assignment
\* is true exactly when every clause has a literal whose polarity agrees with
\* the assignment; one clause without such a literal makes it false.
C8_VerifierCorrect ==
    (verdict.verify_assignment # "none" /\ expression.variables \subseteq DOMAIN candidate) =>
        verdict.verify_assignment =
            (IF Satisfies(candidate, expression.clauses) THEN "true" ELSE "false")

\* a covering assignment rejected for one clause while another clause agrees
C8_Witness ==
    /\ verdict.verify_assignment = "false"
    /\ expression.variables \subseteq DOMAIN candidate
    /\ \E c \in 1..Len(expression.clauses) : Agrees(expression.clauses[c], candidate)
    /\ \E c \in 1..Len(expression.clauses) : ~Agrees(expression.clauses[c], candidate)

\* C9: on any assignment, partial ones included, the verifier neither aborts
\* nor rejects early: a literal of a variable the assignment lacks counts as
\* not agreeing and the remaining literals of the clause are still tried.
C9_PartialAssignments ==
    verdict.verify_assignment # "none" =>
        /\ verdict.verify_assignment # "panic"
        /\ (verdict.verify_assignment = "true") <=> Satisfies(candidate, expression.clauses)

\* C10: construct_assignment returns a map whose keys are exactly the variables
\* of the Expression, with the value of every assigned variable and true for
\* every other one, and leaves the Expression as it is.
C10_ConstructAssignment ==
    [][last_op' = "construct_assignment" =>
          /\ engine' = engine
          /\ DOMAIN constructed' = engine.variables
          /\ \A v \in engine.variables :
                 constructed'[v] = (IF v \in DOMAIN engine.assignments
                                    THEN engine.assignments[v] ELSE TRUE)]_vars

\* an assignment constructed with a variable assigned false and one unassigned
C10_Witness ==
    /\ last_op = "construct_assignment"
    /\ \E v \in DOMAIN engine.assignments : ~engine.assignments[v] /\ ~constructed[v]
    /\ \E v \in engine.variables \ DOMAIN engine.assignments : constructed[v]

\* both remove_unit_clause and remove_pure_literal would return none
Exhausted(e) == e.unit_clauses = {} /\ e.pure_literals = {}

\* C11: once remove_unit_clause and remove_pure_literal have been called until
\* both return none, the formula is unsatisfiable, or satisfied, or
\* is_inference_possible is false.
C11_PropagationFixedPoint ==
    (engine.panic = "" /\ Exhausted(engine)) =>
        \/ is_unsatisfiable(engine)
        \/ is_satisfied(engine)
        \/ ~is_inference_possible(engine)

\* the two sets were drained by calls and the formula is left undecided
C11_Witness ==
    /\ last_op \in {"remove_unit_clause", "remove_pure_literal"}
    /\ engine.panic = ""
    /\ Exhausted(engine)
    /\ ~is_unsatisfiable(engine)
    /\ ~is_satisfied(engine)

\* the clause currently holds the literal
Contains(clause, literal) == \E i \in 1..Len(clause) : clause[i] = literal

\* C12: between engine operations every clause id in literal_to_clause[L] is
\* the id of an active clause that currently contains L; a soft-removed clause
\* is in no literal's index.
C12_IndexSoundness ==
    engine.panic = "" =>
        \A literal \in DOMAIN engine.literal_to_clause :
            \A c \in engine.literal_to_clause[literal] :
                /\ c \in ActiveClauses(engine)
                /\ Contains(engine.clauses[c + 1], literal)

\* C13: between engine operations every active clause is in the index of
\* every literal it currently contains.
C13_IndexCompleteness ==
    engine.panic = "" =>
        \A c \in ActiveClauses(engine) :
            \A i \in 1..Len(engine.clauses[c + 1]) :
                /\ engine.clauses[c + 1][i] \in DOMAIN engine.literal_to_clause
                /\ c \in engine.literal_to_clause[engine.clauses[c + 1][i]]

\* since the mark an active clause has lost a literal and still holds one
C13_Witness ==
    /\ mark.status = "taken"
    /\ engine.panic = ""
    /\ \E c \in ActiveClauses(engine) :
           /\ Len(engine.clauses[c + 1]) >= 1
           /\ Len(engine.clauses[c + 1]) < Len(mark.at.clauses[c + 1])

\* the active clauses whose current length is n
ActiveOfLength(e, n) == {c \in ActiveClauses(e) : Len(e.clauses[c + 1]) = n}

\* C14: between engine operations unit_clauses is exactly the set of the
\* active clauses of current length 1; no soft-removed clause is in it.
C14_UnitSetExact ==
    engine.panic = "" => engine.unit_clauses = ActiveOfLength(engine, 1)

\* C15: between engine operations, directly after construction included,
\* num_empty_clauses is the number of active clauses without literals, and
\* is_unsatisfiable is true exactly when there is one.
C15_EmptyCounterExact ==
    engine.panic = "" =>
        /\ engine.num_empty_clauses = Cardinality(ActiveOfLength(engine, 0))
        /\ is_unsatisfiable(engine) <=> (ActiveOfLength(engine, 0) # {})

\* C16: between engine operations every literal in pure_literals has
\* occurrences in the index while its negation has none, and is no literal of
\* an assigned variable.
C16_PureLiteralSound ==
    engine.panic = "" =>
        \A literal \in engine.pure_literals :
            /\ has_instances(engine, literal)
            /\ ~has_instances(engine, negate(literal))
            /\ to_variable(literal) \notin DOMAIN engine.assignments

\* the AssignVariable records of the log that name the variable
AssignRecords(e, variable) ==
    {i \in 1..Len(e.actions) : e.actions[i] = Action("AssignVariable", variable)}

\* the assigned variables are those with exactly one AssignVariable record
LogMirrorsAssignments(e) ==
    /\ \A v \in DOMAIN e.assignments : Cardinality(AssignRecords(e, v)) = 1
    /\ \A v \in e.variables \ DOMAIN e.assignments : AssignRecords(e, v) = {}

\* C17: the assignments mirror the log. In every state between engine
\* operations the variables in `assignments` are exactly the variables with an
\* AssignVariable record on the action log, each of them has exactly one such
\* record, and a restore to a mark taken before any assignment leaves
\* `assignments` empty.
C17_AssignmentsMirrorLog ==
    engine.panic = "" =>
        /\ LogMirrorsAssignments(engine)
        /\ (mark.status = "restored" /\ DOMAIN mark.at.assignments = {})
               => DOMAIN engine.assignments = {}

\* the RemoveClause records of the log that name the clause
RemoveRecords(e, clause_id) ==
    {i \in 1..Len(e.actions) : e.actions[i] = Action("RemoveClause", clause_id)}

\* C18: the active-clause counter is exact. In every state between engine
\* operations num_active_clauses is the number of clauses without a pending
\* RemoveClause record, no clause has more than one pending RemoveClause
\* record, the counter is not below zero (a wrapped u16 counts as below zero),
\* and is_satisfied() is true exactly when no clause is active.
C18_ActiveCounterExact ==
    engine.panic = "" =>
        /\ engine.num_active_clauses = Cardinality(ActiveClauses(engine))
        /\ \A c \in 0..(Len(engine.clauses) - 1) :
               Cardinality(RemoveRecords(engine, c)) <= 1
        /\ engine.num_active_clauses \in 0..Len(engine.clauses)
        /\ is_satisfied(engine) <=> (ActiveClauses(engine) = {})

\* step: the top activation of solve_dpll on thread w returns
DpllReturns(w) ==
    /\ workers[w].stack # <<>>
    /\ workers'[w].status \in {"running", "returned"}
    /\ Len(workers'[w].stack) = Len(workers[w].stack) - 1

\* C19: failure leaves no trace. Whenever a call of solve_dpll returns None,
\* at any recursion depth, the log depth is the depth captured at that call's
\* entry and the observable state of the Expression is its state at entry;
\* whenever it returns Some, the log is not below the entry depth and
\* is_satisfied() holds.
C19_FailureLeavesNoTrace ==
    [][\A w \in 1..2 :
           DpllReturns(w) =>
               /\ workers'[w].ret.kind = "None" =>
                      /\ Len(workers'[w].cnf.actions) = Top(w).action_state
                      /\ SameState(workers'[w].cnf, Top(w).entry)
               /\ workers'[w].ret.kind = "Some" =>
                      /\ Len(workers'[w].cnf.actions) >= Top(w).action_state
                      /\ is_satisfied(workers'[w].cnf)]_vars

Front(actions) == SubSeq(actions, 1, Len(actions) - 1)
Last(actions) == actions[Len(actions)]

\* the log depth left when RemoveLiteralFromClause records are popped up to and
\* including a RemoveLiteralFromClausesStart, with the clauses named on the
\* way; depth -1 when another record or the bottom of the log is met first
RECURSIVE InnerReplay(_, _)
InnerReplay(actions, named) ==
    IF actions = <<>> THEN [depth |-> 0 - 1, named |-> named]
    ELSE IF Last(actions).tag = "RemoveLiteralFromClause"
    THEN InnerReplay(Front(actions), named \cup {Last(actions).arg})
    ELSE IF Last(actions).tag = "RemoveLiteralFromClausesStart"
    THEN [depth |-> Len(actions) - 1, named |-> named]
    ELSE [depth |-> 0 - 1, named |-> named]

\* the same for the RemoveClause records below a Start, down to the
\* AssignVariable record of the variable
RECURSIVE RemovedBy(_, _, _)
RemovedBy(actions, variable, named) ==
    IF actions = <<>> THEN [depth |-> 0 - 1, named |-> named]
    ELSE IF Last(actions).tag = "RemoveClause"
    THEN RemovedBy(Front(actions), variable, named \cup {Last(actions).arg})
    ELSE IF Last(actions) = Action("AssignVariable", variable)
    THEN [depth |-> Len(actions) - 1, named |-> named]
    ELSE [depth |-> 0 - 1, named |-> named]

\* the log is a sequence of assignment blocks: AssignVariable(v), a
\* RemoveClause per clause of the satisfied literal L, Start, a
\* RemoveLiteralFromClause per clause of -L, End(-L)
RECURSIVE LogGrammar(_, _)
LogGrammar(e, actions) ==
    \/ actions = <<>>
    \/ /\ Last(actions).tag = "RemoveLiteralFromClausesEnd"
       /\ LET falsified == Last(actions).arg
              inner == InnerReplay(Front(actions), {})
              outer == RemovedBy(SubSeq(actions, 1, Max({inner.depth, 0})),
                                 to_variable(falsified), {})
          IN  /\ inner.depth >= 0
              /\ inner.named = e.literal_to_clause[falsified]
              /\ Len(actions) - 2 - inner.depth = Cardinality(inner.named)
              /\ outer.depth >= 0
              /\ outer.named = e.literal_to_clause[negate(falsified)]
              /\ inner.depth - 1 - outer.depth = Cardinality(outer.named)
              /\ LogGrammar(e, SubSeq(actions, 1, Max({outer.depth, 0})))

\* restore_action_state(state) on this log: the outer loop pops RemoveClause,
\* AssignVariable and End records only, the replay after an End ends at its
\* Start, and the loop stops at depth state exactly
RECURSIVE CleanUnwind(_, _)
CleanUnwind(actions, state) ==
    IF Len(actions) <= state THEN Len(actions) = state
    ELSE IF Last(actions).tag \in {"RemoveClause", "AssignVariable"}
    THEN CleanUnwind(Front(actions), state)
    ELSE IF Last(actions).tag = "RemoveLiteralFromClausesEnd"
    THEN LET inner == InnerReplay(Front(actions), {})
         IN  inner.depth >= 0 /\ CleanUnwind(SubSeq(actions, 1, Max({inner.depth, 0})), state)
    ELSE FALSE

\* the marks the activations of solve_dpll on a thread hold
DriverMarks(wk) ==
    {wk.stack[i].action_state : i \in 1..Len(wk.stack)}
    \cup {wk.stack[i].branch_action_state :
             i \in {j \in 1..Len(wk.stack) : wk.stack[j].pc \in {"first", "second"}}}

\* C20: the log grammar. The log of a thread's Expression is a sequence of
\* assignment blocks in the order AssignVariable, RemoveClause records, Start,
\* RemoveLiteralFromClause records, End; and for every mark an activation of
\* solve_dpll holds, restore_action_state pops no Start or
\* RemoveLiteralFromClause record in its outer loop, replays only
\* RemoveLiteralFromClause records up to the matching Start after an End, does
\* not panic, and leaves the log at the depth of the mark.
C20_LogGrammar ==
    \A w \in 1..2 :
        workers[w].status \in {"running", "returned"} =>
            /\ LogGrammar(workers[w].cnf, workers[w].cnf.actions)
            /\ \A state \in DriverMarks(workers[w]) :
                   /\ CleanUnwind(workers[w].cnf.actions, state)
                   /\ restore_action_state(workers[w].cnf, state).panic = ""
                   /\ Len(restore_action_state(workers[w].cnf, state).actions) = state

\* an activation has restored its branch mark, above the bottom of the log, and
\* is in its second recursive call
C20_Witness ==
    \E w \in 1..2 :
        /\ workers[w].status = "running"
        /\ \E i \in 1..Len(workers[w].stack) :
               /\ workers[w].stack[i].pc = "second"
               /\ workers[w].stack[i].branch_action_state > 0
               /\ Len(workers[w].cnf.actions) > workers[w].stack[i].branch_action_state

\* the literal occurs in a clause that is not soft-removed
OccursActive(e, literal) ==
    \E c \in ActiveClauses(e) : Contains(e.clauses[c + 1], literal)

\* the thread is at the call of get_branch_variable (dpll.rs line 36)
AtGetBranchVariable(wk) ==
    /\ wk.status = "running"
    /\ wk.stack # <<>>
    /\ wk.stack[Len(wk.stack)].pc = "decide"
    /\ ~is_satisfied(wk.cnf)
    /\ ~is_unsatisfiable(wk.cnf)

\* C21: branch-variable validity. Whenever the driver calls
\* get_branch_variable, under each of the three heuristics, every pair
\* (v, value) it can return has v not in `assignments` and +v or -v occurring
\* in a currently active clause.
C21_BranchVariableValid ==
    \A w \in 1..2 :
        AtGetBranchVariable(workers[w]) =>
            \A choice \in get_branch_variable(workers[w].cnf) :
                /\ choice[1] \notin DOMAIN workers[w].cnf.assignments
                /\ \/ OccursActive(workers[w].cnf, choice[1])
                   \/ OccursActive(workers[w].cnf, 0 - choice[1])

\* the clauses listed under the literal, over all clause sizes
TotalOccurrences(e, literal) == Cardinality(e.literal_to_clause[literal])

\* C22: MinimizeClauseLength polarity. Whenever the driver calls
\* get_branch_variable under MinimizeClauseLength, the value returned with the
\* surviving variable v is true when +v has more total occurrences than -v,
\* false when -v has more, and true when the two counts are equal.
C22_MinimizePolarity ==
    \A w \in 1..2 :
        (AtGetBranchVariable(workers[w]) /\ workers[w].cnf.heuristic = "MinimizeClauseLength") =>
            \A choice \in get_branch_variable(workers[w].cnf) :
                choice[2] = (TotalOccurrences(workers[w].cnf, choice[1])
                                 >= TotalOccurrences(workers[w].cnf, 0 - choice[1]))

\* C23: worker isolation. During solve, under every interleaving, a step that
\* changes one worker's Expression leaves the other worker's state as it was,
\* and no step changes the coordinator's original Expression: it is the same
\* before the race and when the verifier reads it.
C23_WorkerIsolation ==
    [][/\ expression' = expression
       /\ coordinator.pc # "called" =>
              \A w \in 1..2 :
                  workers'[w].cnf # workers[w].cnf => workers'[3 - w] = workers[3 - w]]_vars

\* both workers have assigned on their own clone, and differently
C23_Witness ==
    /\ use_multiple_threads
    /\ workers[1].cnf.actions # <<>>
    /\ workers[2].cnf.actions # <<>>
    /\ workers[1].cnf.assignments # workers[2].cnf.assignments
    /\ expression.actions = <<>>
    /\ expression.assignments = <<>>

\* ---------------------------------------------------------------- SpecAdd
\* add_clause on an Expression that is nearly out of 16-bit clause ids: it
\* holds U16 - AddRoom clauses already, all of them zero-length (each was
\* pushed and counted, and touched no index), and more clauses are added.
Prefilled(n) ==
    [new EXCEPT !.clauses = [i \in 1..n |-> <<>>], !.num_active_clauses = n]

AddClause ==
    /\ engine.panic = ""
    /\ Len(engine.clauses) < U16 - AddRoom + MaxAdds
    /\ \E clause \in DeepUniverse : engine' = add_clause(engine, clause)
    /\ last_op' = "add_clause"
    /\ UNCHANGED <<mark, constructed>>
    /\ EngineFrame

InitAdd ==
    /\ overflow_checks \in BOOLEAN
    /\ engine = Prefilled(U16 - AddRoom)
    /\ mark = NoMark
    /\ last_op = "none"
    /\ constructed = NoAssignment
    /\ expression = new
    /\ workers = [w \in 1..2 |-> Idle]
    /\ runs = <<>>
    /\ use_multiple_threads = FALSE
    /\ verify = FALSE
    /\ channel = <<>>
    /\ sent = <<>>
    /\ coordinator = NoCoordinator
    /\ candidate = NoAssignment
    /\ verdict = NoVerdict

NextAdd == AddClause

SpecAdd == InitAdd /\ [][NextAdd]_vars

\* C24: no silent wrap of 16-bit identifiers and counters. For any number of
\* added clauses, unless add_clause has aborted, the clauses have ids of their
\* own (there are no more clauses than 16-bit ids, and an id listed under a
\* literal or in unit_clauses names a clause that holds that literal or has
\* length 1), and num_active_clauses is the number of clauses added.
C24_NoSilentWrap ==
    engine.panic = "" =>
        /\ Len(engine.clauses) <= U16
        /\ \A literal \in DOMAIN engine.literal_to_clause :
               \A c \in engine.literal_to_clause[literal] :
                   Contains(engine.clauses[c + 1], literal)
        /\ \A c \in engine.unit_clauses : Len(engine.clauses[c + 1]) = 1
        /\ engine.num_active_clauses = Len(engine.clauses)

\* the number of assigned variables
Assigned(e) == Cardinality(DOMAIN e.assignments)

\* step: a call of remove_unit_clause or remove_pure_literal on thread w
\* returns Some and the draining loop goes round again
DrainStep(w) ==
    /\ workers[w].status = "running"
    /\ workers'[w].status = "running"
    /\ workers[w].stack # <<>>
    /\ Top(w).pc \in {"unit", "pure"}
    /\ Len(workers'[w].cnf.actions) > Len(workers[w].cnf.actions)

\* step: an activation of solve_dpll on thread w makes a recursive call
RecursiveCall(w) ==
    /\ workers[w].stack # <<>>
    /\ workers'[w].status = "running"
    /\ Len(workers'[w].stack) = Len(workers[w].stack) + 1

\* C25: termination of the search, by its measure. Every round of a draining
\* loop (remove_unit_clause or remove_pure_literal returning Some) leaves
\* strictly more variables assigned, so the loops end after finitely many
\* rounds; every recursive call of solve_dpll is made with strictly more
\* assigned variables than its caller was entered with; and the recursion
\* depth is at most the number of variables.
C25_Termination ==
    [][\A w \in 1..2 :
           /\ DrainStep(w) => Assigned(workers'[w].cnf) > Assigned(workers[w].cnf)
           /\ RecursiveCall(w) =>
                  /\ Assigned(workers'[w].cnf) > Assigned(Top(w).entry)
                  /\ Len(workers'[w].stack) - 1 <= Cardinality(workers'[w].cnf.variables)]_vars

\* C26: the driver never hits the fatal no-candidate abort. Whenever solve_dpll
\* reaches get_branch_variable, the formula is neither satisfied nor
\* unsatisfiable, some unassigned variable exists and the heuristic returns a
\* pair; no thread ends with 'No branch variable found' or an out-of-range
\* index, so the search ends with Some or None.
C26_NoCandidateAbort ==
    \A w \in 1..2 :
        /\ AtGetBranchVariable(workers[w]) =>
               /\ Unassigned(workers[w].cnf) # {}
               /\ get_branch_variable(workers[w].cnf) # {}
        /\ workers[w].status = "panicked" =>
               workers[w].cnf.panic \notin {"No branch variable found",
                                             "index out of bounds"}

\* every spawned worker has finished: it has sent its result, or it has
\* aborted without sending
WorkersFinished ==
    \A w \in 1..2 : workers[w].status \in {"unspawned", "done", "panicked"}

\* C27: the coordinator never blocks forever. In solve, for both values of
\* use_multiple_threads, once every spawned worker has finished and the
\* coordinator is in its blocking receive, the receive can complete: with a
\* queued result, or with the 'Could not receive result' abort because every
\* sender is dropped. Nothing else can change in such a state, so a receive
\* that cannot complete there waits forever.
C27_CoordinatorNeverBlocks ==
    (coordinator.pc = "recv" /\ WorkersFinished) =>
        (ENABLED SolveRecv \/ ENABLED SolveRecvDisconnected)

====
